---- MODULE Spec2Model ----
(***************************************************************************)
(* Model of target_csv.py (singer target-csv): persist_messages consumes   *)
(* SCHEMA / RECORD / STATE messages, appends one CSV row per RECORD to the *)
(* file <output_folder>/<stream>--<date>.csv and returns the checkpoint;   *)
(* main emits it with emit_state.                                          *)
(*                                                                         *)
(* Python values are records [t, s, m]: t is the Python type name, s the   *)
(* text of a scalar (its str()), m the ordered items of a dict.  A dict is *)
(* a sequence of <<key, value>> pairs with distinct keys, in iteration     *)
(* order.  A file is [exists, rows]; a row is [kind, cols, fields], where  *)
(* fields is what is on disk and kind / cols record, for the properties    *)
(* only, whether writeheader or writerow produced it and with which        *)
(* fieldnames.  The model assumes an interpreter where                     *)
(* collections.MutableMapping exists (Python < 3.10).                      *)
(***************************************************************************)
EXTENDS Integers, Sequences, FiniteSets, TLC

\* ---------------------------------------------------------------- bounds
MaxMsgs == 4      \* messages consumed over all runs
MaxRuns == 2      \* sequential runs against the same output folder
MaxDay  == 2      \* calendar days the clock can reach

Streams == {"orders", "users"}
Days    == 1..MaxDay

\* ------------------------------------------------------- Python values
PyNone     == [t |-> "NoneType", s |-> "None", m |-> <<>>]
PyInt(x)   == [t |-> "int",  s |-> x, m |-> <<>>]
PyStr(x)   == [t |-> "str",  s |-> x, m |-> <<>>]
PyList(x)  == [t |-> "list", s |-> x, m |-> <<>>]
PyDict(it) == [t |-> "dict", s |-> "",  m |-> it]

\* json.dumps on the values used as checkpoints
RECURSIVE json_dumps(_)
json_dumps(v) ==
    LET member(kv) == "\"" \o kv[1] \o "\": " \o json_dumps(kv[2])
        members[n \in 0..Len(v.m)] ==
            IF n = 0 THEN ""
            ELSE IF n = 1 THEN member(v.m[1])
            ELSE members[n - 1] \o ", " \o member(v.m[n])
    IN  CASE v.t = "NoneType" -> "null"
          [] v.t = "int"      -> v.s
          [] v.t = "str"      -> "\"" \o v.s \o "\""
          [] v.t = "list"     -> v.s
          [] OTHER            -> "{" \o members[Len(v.m)] \o "}"

\* ------------------------------------------------------------- flatten
sep == "__"

Front(q) == SubSeq(q, 1, Len(q) - 1)

\* dict(items): a later item with a key already present replaces the value
\* and keeps the position of the first occurrence
RECURSIVE dict(_)
dict(items) ==
    IF items = <<>> THEN <<>>
    ELSE LET init == dict(Front(items))
             last == items[Len(items)]
         IN  IF \E i \in 1..Len(init) : init[i][1] = last[1]
             THEN [i \in 1..Len(init) |->
                      IF init[i][1] = last[1] THEN last ELSE init[i]]
             ELSE Append(init, last)

RECURSIVE flatten(_, _)
flatten(d, parent_key) ==
    LET item(kv) ==
            LET k == kv[1]
                v == kv[2]
                new_key == IF parent_key # "" THEN parent_key \o sep \o k ELSE k
            IN  IF v.t = "dict"
                THEN flatten(v.m, new_key)
                ELSE << <<new_key, IF v.t = "list" THEN PyStr(v.s) ELSE v>> >>
        items[n \in 0..Len(d)] ==
            IF n = 0 THEN <<>> ELSE items[n - 1] \o item(d[n])
    IN  dict(items[Len(d)])

keys(d) == [i \in 1..Len(d) |-> d[i][1]]

has_key(d, k) == \E i \in 1..Len(d) : d[i][1] = k

get(d, k) == d[CHOOSE i \in 1..Len(d) : d[i][1] = k][2]

\* ------------------------------------------------------------ messages
\* JSON schemas, reduced to what Draft4Validator checks on the records
\* below: required keys and keys whose value must be an integer
SchemaAny == [required |-> {},    integer |-> {}]
SchemaA   == [required |-> {"a"}, integer |-> {"a"}]
Schemas   == {SchemaAny, SchemaA}

R0 == <<>>
R1 == << <<"a", PyInt("1")>>, <<"b", PyStr("x")>> >>
R2 == << <<"b", PyStr("y")>>, <<"c", PyNone>> >>
R3 == << <<"a", PyDict(<< <<"b", PyInt("1")>>, <<"c", PyInt("2")>> >>)>> >>
R4 == << <<"c", PyList("[1, 2]")>>, <<"a", PyInt("7")>> >>
Records == {R0, R1, R2, R3, R4}

\* the RECORD and SCHEMA messages the input carries for each stream
RecordsOf(stream) == IF stream = "orders" THEN Records ELSE {R1, R2}
SchemasOf(stream) == IF stream = "orders" THEN Schemas ELSE {SchemaAny}

StateValues == {PyNone, PyDict(<< <<"bookmark", PyInt("1")>> >>)}

Msg(ok, type, stream, record, schema, value) ==
    [ok |-> ok, type |-> type, stream |-> stream, record |-> record,
     schema |-> schema, key_properties |-> <<>>, value |-> value]

\* the lines the input stream can deliver; ok = FALSE is a line that
\* singer.parse_message cannot decode
Messages ==
         UNION {{Msg(TRUE, "RECORD", s, r, SchemaAny, PyNone) : r \in RecordsOf(s)}
                   : s \in Streams}
    \cup UNION {{Msg(TRUE, "SCHEMA", s, R0, sc, PyNone) : sc \in SchemasOf(s)}
                   : s \in Streams}
    \cup {Msg(TRUE, "STATE", "", R0, SchemaAny, v) : v \in StateValues}
    \cup {Msg(TRUE, "ACTIVATE_VERSION", "orders", R0, SchemaAny, PyNone)}
    \cup {Msg(FALSE, "", "", R0, SchemaAny, PyNone)}

NoMsg == Msg(TRUE, "", "", R0, SchemaAny, PyNone)

\* --------------------------------------------------------------- files
AbsentFile == [exists |-> FALSE, rows |-> <<>>]
EmptyFile  == [exists |-> TRUE,  rows |-> <<>>]

FileNames == Streams \X Days

\* variant: the stream name is left out of the file name
filename_shared(stream, date, today) == <<"orders", date>>

\* variant: the date is taken anew for every RECORD
filename_now(stream, date, today) == <<stream, today>>

\* o["stream"] + "--<date>.csv" joined to output_folder: one file per
\* (stream, date); date is the value captured on line 47, today the clock
filename(stream, date, today) == <<stream, date>>

\* (not os.path.isfile(filename)) or os.stat(filename).st_size == 0
file_is_empty(f) == (~f.exists) \/ Len(f.rows) = 0

\* next(csv.reader(csvfile)): the fields of the first row
first_line(f) == f.rows[1].fields

\* the text csv.writer puts in a cell: None is written as "", others as str()
cell(v) == IF v.t = "NoneType" THEN "" ELSE v.s

\* variant: an empty first line of an existing file is kept as the header
header_for_keep_empty(stream, hdrs, f, empty, flattened_record) ==
    IF stream \notin DOMAIN hdrs /\ ~empty
    THEN first_line(f)
    ELSE keys(flattened_record)

\* variant: the header of an existing file is never read
header_for_record_only(stream, hdrs, f, empty, flattened_record) ==
    keys(flattened_record)

\* lines 74-84: the fieldnames used for this RECORD
header_for(stream, hdrs, f, empty, flattened_record) ==
    IF stream \notin DOMAIN hdrs /\ ~empty
    THEN IF first_line(f) # <<>> THEN first_line(f) ELSE keys(flattened_record)
    ELSE keys(flattened_record)

\* DictWriter.writeheader
header_row(fieldnames) ==
    [kind |-> "header", cols |-> fieldnames, fields |-> fieldnames]

\* variant: the values are written in the record's own order (csv.writer on
\* rowdict.values())
data_row_record_order(fieldnames, rowdict) ==
    [kind |-> "data", cols |-> fieldnames,
     fields |-> [i \in 1..Len(rowdict) |-> cell(rowdict[i][2])]]

\* DictWriter.writerow with extrasaction="ignore", restval=""
data_row(fieldnames, rowdict) ==
    [kind |-> "data", cols |-> fieldnames,
     fields |-> [i \in 1..Len(fieldnames) |->
                    IF has_key(rowdict, fieldnames[i])
                    THEN cell(get(rowdict, fieldnames[i])) ELSE ""]]

\* variant: the file is opened with mode "w"
append_truncate(f, fieldnames, rowdict, empty) ==
    [exists |-> TRUE,
     rows   |-> (IF empty THEN <<header_row(fieldnames)>> ELSE <<>>)
                \o <<data_row(fieldnames, rowdict)>>]

\* variant: the test before writeheader is inverted
append_header_inverted(f, fieldnames, rowdict, empty) ==
    [exists |-> TRUE,
     rows   |-> (IF ~empty THEN Append(f.rows, header_row(fieldnames)) ELSE f.rows)
                \o <<data_row(fieldnames, rowdict)>>]

\* variant: writeheader is called for every RECORD
append_header_always(f, fieldnames, rowdict, empty) ==
    [exists |-> TRUE,
     rows   |-> f.rows \o <<header_row(fieldnames), data_row(fieldnames, rowdict)>>]

\* lines 86-97: open(filename, "a"), header if the file was empty, the row
append(f, fieldnames, rowdict, empty) ==
    [exists |-> TRUE,
     rows   |-> (IF empty THEN Append(f.rows, header_row(fieldnames)) ELSE f.rows)
                \o <<data_row(fieldnames, rowdict)>>]

\* Draft4Validator(schema).validate(record) does not raise
validate(schema, record) ==
    /\ \A k \in schema.required : has_key(record, k)
    /\ \A i \in 1..Len(record) :
          record[i][1] \in schema.integer => record[i][2].t = "int"

\* variant: the schema check asks whether any schema was declared
record_outcome_any_schema(o, schs, vals) ==
    IF DOMAIN schs = {} THEN "missing_schema"
    ELSE IF o.stream \in DOMAIN vals /\ ~validate(vals[o.stream], o.record)
         THEN "invalid"
    ELSE "ok"

\* variant: the file is looked at again when the header is written
empty_at_write_fresh(observed, f) == file_is_empty(f)

\* line 94: the test before writeheader uses file_is_empty as computed on
\* lines 67-69, whatever the file f is by now
empty_at_write(observed, f) == observed

\* lines 57-63: which way a RECORD goes
record_outcome(o, schs, vals) ==
    IF o.stream \notin DOMAIN schs THEN "missing_schema"
    ELSE IF ~validate(vals[o.stream], o.record) THEN "invalid"
    ELSE "ok"

\* variant: the validators of the other streams are dropped
new_validator_reset(vals, stream, schema) == (stream :> schema)

\* variant: a validator already compiled for the stream is kept
new_validator_keep_first(vals, stream, schema) ==
    IF stream \in DOMAIN vals THEN vals ELSE (stream :> schema) @@ vals

\* line 106: validators[stream] = Draft4Validator(o["schema"])
new_validator(vals, stream, schema) == (stream :> schema) @@ vals

\* variant: a RECORD leaves the checkpoint alone
state_after_record_keep(st) == st

\* line 99
state_after_record(st) == PyNone

\* variant: every type that is neither RECORD nor SCHEMA is taken as STATE
branch_state_last(message_type) ==
    CASE message_type = "RECORD" -> "RECORD"
      [] message_type = "SCHEMA" -> "SCHEMA"
      [] OTHER                   -> "STATE"

\* lines 56, 100, 103, 108: the branch taken for a message type
branch(message_type) ==
    CASE message_type = "RECORD" -> "RECORD"
      [] message_type = "STATE"  -> "STATE"
      [] message_type = "SCHEMA" -> "SCHEMA"
      [] OTHER                   -> "else"

\* variant: the line is logged and skipped
decode_failure_skip == "running"

\* lines 50-54: the exception of parse_message is re-raised
decode_failure_pc == "aborted"

\* emit_state: one line on stdout unless state is None
emit_state(out, st) ==
    IF st # PyNone THEN Append(out, json_dumps(st)) ELSE out

\* --------------------------------------------------------------- state
VARIABLES
    pc,              \* "running", "aborted" (exception left main), "exited"
    state,           \* persist_messages: state
    schemas,         \* persist_messages: schemas
    key_properties,  \* persist_messages: key_properties
    headers,         \* persist_messages: headers
    validators,      \* persist_messages: validators
    date,            \* persist_messages: date
    returned,        \* value returned by persist_messages
    stdout,          \* lines written to sys.stdout by this run
    files,           \* the output folder: FileNames -> file
    today,           \* the calendar day now
    run,             \* number of the current run
    \* history, read by the properties only
    cur,             \* the message consumed last in this run
    total,           \* messages consumed in all runs
    nrec,            \* RECORD messages written per stream in this run
    last_rs,         \* "" / "RECORD" / "STATE": kind of the last RECORD or STATE
    last_state,      \* value of the last STATE message
    declared,        \* schema of the last SCHEMA message per stream
    start_files,     \* files when the run started
    start_day,       \* calendar day when the run started
    write_day,       \* calendar day of the last append of this run, 0 if none
    \* state of the other specifications, left alone by Spec
    fl,              \* one call of flatten: [d, out, done]
    procs            \* two runs at the same time: per process its locals

mem  == <<state, schemas, key_properties, headers, validators, date>>
hist == <<cur, total, nrec, last_rs, last_state, declared, start_files,
          start_day, write_day>>
vars == <<pc, state, schemas, key_properties, headers, validators, date,
          returned, stdout, files, today, run,
          cur, total, nrec, last_rs, last_state, declared, start_files,
          start_day, write_day, fl, procs>>
apart == <<fl, procs>>

EmptyDict == <<>>

\* a call of flatten that has not been made
NoCall == [d |-> <<>>, out |-> <<>>, done |-> FALSE]

\* persist_messages, lines 38-47, in each of the two processes
Procs == {1, 2}
ProcStart ==
    [pc |-> "loop", state |-> PyNone, schemas |-> EmptyDict,
     key_properties |-> EmptyDict, headers |-> EmptyDict,
     validators |-> EmptyDict, o |-> NoMsg, file_is_empty |-> FALSE,
     flattened_record |-> <<>>]

InitRun ==
    /\ pc = "running"
    /\ state = PyNone
    /\ schemas = EmptyDict
    /\ key_properties = EmptyDict
    /\ headers = EmptyDict
    /\ validators = EmptyDict
    /\ today = 1
    /\ date = today
    /\ returned = PyNone
    /\ stdout = <<>>
    /\ \E touched \in {{}, {"orders"}} :
          files = [fn \in FileNames |->
                      IF fn[1] \in touched /\ fn[2] = 1 THEN EmptyFile ELSE AbsentFile]
    /\ run = 1
    /\ cur = NoMsg
    /\ total = 0
    /\ nrec = [s \in Streams |-> 0]
    /\ last_rs = ""
    /\ last_state = PyNone
    /\ declared = EmptyDict
    /\ start_files = files
    /\ start_day = today
    /\ write_day = 0

Init ==
    /\ InitRun
    /\ fl = NoCall
    /\ procs = [p \in Procs |-> ProcStart]

\* one more message is taken from the input
Consume(message) ==
    /\ pc = "running"
    /\ total < MaxMsgs
    /\ cur' = message
    /\ total' = total + 1
    /\ UNCHANGED <<date, returned, stdout, today, run, start_files, start_day>>
    /\ UNCHANGED apart

\* lines 50-54
DecodeFailure(message) ==
    /\ ~message.ok
    /\ Consume(message)
    /\ pc' = decode_failure_pc
    /\ UNCHANGED <<state, schemas, key_properties, headers, validators, files,
                   nrec, last_rs, last_state, declared, write_day>>

\* lines 56-99
HandleRecord(o) ==
    /\ o.ok /\ branch(o.type) = "RECORD"
    /\ Consume(o)
    /\ LET outcome == record_outcome(o, schemas, validators)
           fn      == filename(o.stream, date, today)
           f       == files[fn]
           file_empty == file_is_empty(f)
           flattened_record == flatten(o.record, "")
           hdr     == header_for(o.stream, headers, f, file_empty, flattened_record)
       IN  IF outcome # "ok"
           THEN /\ pc' = "aborted"
                /\ UNCHANGED <<state, headers, files, nrec, last_rs, write_day>>
           ELSE /\ pc' = "running"
                /\ headers' = (o.stream :> hdr) @@ headers
                /\ files' = [files EXCEPT
                               ![fn] = append(f, hdr, flattened_record, file_empty)]
                /\ state' = state_after_record(state)
                /\ nrec' = [nrec EXCEPT ![o.stream] = @ + 1]
                /\ last_rs' = "RECORD"
                /\ write_day' = today
    /\ UNCHANGED <<schemas, key_properties, validators, last_state, declared>>

\* lines 100-102
HandleState(o) ==
    /\ o.ok /\ branch(o.type) = "STATE"
    /\ Consume(o)
    /\ pc' = "running"
    /\ state' = o.value
    /\ last_rs' = "STATE"
    /\ last_state' = o.value
    /\ UNCHANGED <<schemas, key_properties, headers, validators, files, nrec,
                   declared, write_day>>

\* lines 103-107
HandleSchema(o) ==
    /\ o.ok /\ branch(o.type) = "SCHEMA"
    /\ Consume(o)
    /\ pc' = "running"
    /\ schemas' = (o.stream :> o.schema) @@ schemas
    /\ validators' = new_validator(validators, o.stream, o.schema)
    /\ key_properties' = (o.stream :> o.key_properties) @@ key_properties
    /\ declared' = (o.stream :> o.schema) @@ declared
    /\ UNCHANGED <<state, headers, files, nrec, last_rs, last_state, write_day>>

\* lines 108-109
HandleUnknown(o) ==
    /\ o.ok /\ branch(o.type) = "else"
    /\ Consume(o)
    /\ pc' = "running"
    /\ UNCHANGED <<state, schemas, key_properties, headers, validators, files,
                   nrec, last_rs, last_state, declared, write_day>>

\* line 111 and main, lines 126-132: the input is exhausted
EndOfInput ==
    /\ pc = "running"
    /\ pc' = "exited"
    /\ returned' = state
    /\ stdout' = emit_state(stdout, state)
    /\ UNCHANGED <<mem, files, today, run, hist, apart>>

\* midnight passes
DayTick ==
    /\ today < MaxDay
    /\ today' = today + 1
    /\ UNCHANGED <<pc, mem, returned, stdout, files, run, hist, apart>>

\* the target is started again on the same output folder (lines 41-47)
NewRun ==
    /\ pc \in {"aborted", "exited"}
    /\ run < MaxRuns
    /\ run' = run + 1
    /\ pc' = "running"
    /\ state' = PyNone
    /\ schemas' = EmptyDict
    /\ key_properties' = EmptyDict
    /\ headers' = EmptyDict
    /\ validators' = EmptyDict
    /\ date' = today
    /\ returned' = PyNone
    /\ stdout' = <<>>
    /\ cur' = NoMsg
    /\ nrec' = [s \in Streams |-> 0]
    /\ last_rs' = ""
    /\ last_state' = PyNone
    /\ declared' = EmptyDict
    /\ start_files' = files
    /\ start_day' = today
    /\ write_day' = 0
    /\ UNCHANGED <<files, today, total, apart>>

Next ==
    \/ \E message \in Messages : DecodeFailure(message)
    \/ \E message \in Messages : HandleRecord(message)
    \/ \E message \in Messages : HandleState(message)
    \/ \E message \in Messages : HandleSchema(message)
    \/ \E message \in Messages : HandleUnknown(message)
    \/ EndOfInput
    \/ DayTick
    \/ NewRun

Spec == Init /\ [][Next]_vars

\* ------------------------------------------------- flatten on its own
\* the mappings flatten is called on: up to two entries, keys that are
\* empty, plain or contain the separator, scalar, list and nested values
Scalars   == {PyInt("1"), PyInt("2"), PyList("[1, 2]")}
InnerKeys == {"b", "c"}
OuterKeys == {"", "a", "b", "a__b"}

DictsOver(ks, vs) ==
         {<<>>}
    \cup {<< <<k, v>> >> : k \in ks, v \in vs}
    \cup {<< <<k[1], v[1]>>, <<k[2], v[2]>> >> :
              k \in {kk \in ks \X ks : kk[1] # kk[2]}, v \in vs \X vs}

InnerDicts == DictsOver(InnerKeys, Scalars)

OuterValues ==
         Scalars
    \cup {PyDict(i) : i \in InnerDicts}
    \cup {PyDict(<< <<"b", PyDict(i)>> >>) : i \in InnerDicts}

FlattenInputs == DictsOver(OuterKeys, OuterValues)

FlattenInit ==
    /\ InitRun
    /\ files = [fn \in FileNames |-> AbsentFile]
    /\ fl \in {[d |-> d, out |-> <<>>, done |-> FALSE] : d \in FlattenInputs}
    /\ procs = [p \in Procs |-> ProcStart]

\* flatten(d), lines 26-34
CallFlatten ==
    /\ ~fl.done
    /\ fl' = [fl EXCEPT !.out = flatten(fl.d, ""), !.done = TRUE]
    /\ UNCHANGED <<pc, mem, returned, stdout, files, today, run, hist, procs>>

FlattenNext == CallFlatten

FlattenSpec == FlattenInit /\ [][FlattenNext]_vars

\* ------------------------------------------- two runs at the same time
\* Two processes run persist_messages on the same output folder, started on
\* the same day.  Each has its own locals (procs[p]); the files are shared.
\* A RECORD takes three steps, one per access to the file system: the stat
\* of lines 67-69, the read of lines 74-84, and the append of lines 86-97,
\* whose buffered text reaches the file in one piece when the with block
\* closes it.
ConcMessages ==
    {m \in Messages : /\ m.ok /\ m.stream = "orders"
                      /\ \/ m.type = "SCHEMA" /\ m.schema = SchemaAny
                         \/ m.type = "RECORD" /\ m.record \in {R1, R2}}

conc_frame == <<pc, mem, returned, stdout, today, run, cur, nrec, last_rs,
                last_state, declared, start_files, start_day, write_day, fl>>

ConcInit == Init

\* lines 103-107 in process p
CSchema(p, o) ==
    /\ procs[p].pc = "loop" /\ total < MaxMsgs
    /\ branch(o.type) = "SCHEMA"
    /\ total' = total + 1
    /\ procs' = [procs EXCEPT ![p] =
           [@ EXCEPT !.o = o,
                     !.schemas = (o.stream :> o.schema) @@ @,
                     !.validators = new_validator(@, o.stream, o.schema),
                     !.key_properties = (o.stream :> o.key_properties) @@ @]]
    /\ UNCHANGED <<files, conc_frame>>

\* lines 56-71 in process p: checks, file name, stat, flatten
CRecordStat(p, o) ==
    /\ procs[p].pc = "loop" /\ total < MaxMsgs
    /\ branch(o.type) = "RECORD"
    /\ total' = total + 1
    /\ LET me == procs[p]
           fn == filename(o.stream, date, today)
       IN  IF record_outcome(o, me.schemas, me.validators) # "ok"
           THEN procs' = [procs EXCEPT ![p] = [@ EXCEPT !.o = o, !.pc = "aborted"]]
           ELSE procs' = [procs EXCEPT ![p] =
                    [@ EXCEPT !.o = o,
                              !.file_is_empty = file_is_empty(files[fn]),
                              !.flattened_record = flatten(o.record, ""),
                              !.pc = "header"]]
    /\ UNCHANGED <<files, conc_frame>>

\* lines 73-84 in process p
CHeader(p) ==
    /\ procs[p].pc = "header"
    /\ LET me == procs[p]
           fn == filename(me.o.stream, date, today)
       IN  procs' = [procs EXCEPT ![p] =
               [@ EXCEPT !.headers =
                             (me.o.stream :>
                                 header_for(me.o.stream, me.headers, files[fn],
                                            me.file_is_empty, me.flattened_record))
                             @@ @,
                         !.pc = "append"]]
    /\ UNCHANGED <<files, total, conc_frame>>

\* lines 86-99 in process p
CAppend(p) ==
    /\ procs[p].pc = "append"
    /\ LET me == procs[p]
           fn == filename(me.o.stream, date, today)
       IN  /\ files' = [files EXCEPT ![fn] =
                  append(files[fn], me.headers[me.o.stream], me.flattened_record,
                         empty_at_write(me.file_is_empty, files[fn]))]
           /\ procs' = [procs EXCEPT ![p] =
                  [@ EXCEPT !.state = state_after_record(@), !.pc = "loop"]]
    /\ UNCHANGED <<total, conc_frame>>

\* line 111 in process p
CEnd(p) ==
    /\ procs[p].pc = "loop"
    /\ procs' = [procs EXCEPT ![p] = [@ EXCEPT !.pc = "exited"]]
    /\ UNCHANGED <<files, total, conc_frame>>

ConcNext ==
    \/ \E p \in Procs, o \in ConcMessages : CSchema(p, o)
    \/ \E p \in Procs, o \in ConcMessages : CRecordStat(p, o)
    \/ \E p \in Procs : CHeader(p)
    \/ \E p \in Procs : CAppend(p)
    \/ \E p \in Procs : CEnd(p)

ConcSpec == ConcInit /\ [][ConcNext]_vars

\* ---------------------------------------------------------- properties
Last(q) == q[Len(q)]

IsPrefix(p, q) == Len(p) <= Len(q) /\ SubSeq(q, 1, Len(p)) = p

RowsOfKind(f, kind) ==
    Cardinality({i \in 1..Len(f.rows) : f.rows[i].kind = kind})

\* this step consumed a message of the current run
Consumed == total' = total + 1

\* the checkpoint the messages consumed so far call for
ExpectedCheckpoint == IF last_rs = "STATE" THEN last_state ELSE PyNone

\* message m is fatal given the schemas declared so far in the run
Fatal(m) ==
    \/ ~m.ok
    \/ /\ m.type = "RECORD"
       /\ \/ m.stream \notin DOMAIN declared
          \/ ~validate(declared[m.stream], m.record)

\* C1: once a stream has a header in a run, the header held for the stream
\* never changes in that run and every later row of the stream is written
\* with exactly these columns.
C1_HeaderStability ==
    [][\A s \in Streams :
          (run' = run /\ s \in DOMAIN headers)
              => /\ s \in DOMAIN headers'
                 /\ headers'[s] = headers[s]
                 /\ (nrec'[s] # nrec[s]
                        => Last(files'[<<s, start_day>>].rows).cols = headers[s])
      ]_vars

\* C2: after every message of a run without fatal error the checkpoint is
\* None when the last RECORD-or-STATE message was a RECORD (or there was
\* none) and the value of the last STATE otherwise, and that is the value
\* persist_messages returns.
C2_Checkpoint ==
    /\ pc \in {"running", "exited"} => state = ExpectedCheckpoint
    /\ pc = "exited" => returned = ExpectedCheckpoint

C2_Witness ==
    /\ pc = "exited"
    /\ last_rs = "RECORD"
    /\ last_state # PyNone
    /\ returned = PyNone

\* C3: a RECORD of a stream without an earlier SCHEMA of that stream in the
\* run aborts the run and leaves every file and header as it was.
C3_MissingSchema ==
    [][(Consumed /\ cur'.ok /\ cur'.type = "RECORD"
           /\ cur'.stream \notin DOMAIN declared)
          => (pc' = "aborted" /\ files' = files /\ headers' = headers)
      ]_vars

C3_Witness ==
    /\ pc = "aborted"
    /\ cur.ok /\ cur.type = "RECORD"
    /\ cur.stream \notin DOMAIN declared
    /\ DOMAIN declared # {}
    /\ files = start_files

\* C4: a RECORD that does not conform to the schema declared last for its
\* stream aborts the run; the files and the cached headers are unchanged.
C4_ValidationRejection ==
    [][(Consumed /\ cur'.ok /\ cur'.type = "RECORD"
           /\ cur'.stream \in DOMAIN declared
           /\ ~validate(declared[cur'.stream], cur'.record))
          => (pc' = "aborted" /\ files' = files /\ headers' = headers)
      ]_vars

C4_Witness ==
    /\ pc = "aborted"
    /\ cur.ok /\ cur.type = "RECORD"
    /\ cur.stream \in DOMAIN declared
    /\ ~validate(declared[cur.stream], cur.record)
    /\ cur.stream \in DOMAIN headers
    /\ nrec[cur.stream] > 0

\* C5 as stated: at the end of a run every stream's file holds exactly one
\* header row and as many data rows as the stream had RECORD messages.
C5_RowCountAsStated ==
    pc = "exited" =>
        \A s \in Streams :
            nrec[s] > 0 =>
                LET f == files[<<s, start_day>>]
                IN  /\ RowsOfKind(f, "header") = 1
                    /\ RowsOfKind(f, "data") = nrec[s]

\* C5 (amended): a run aborts only on a fatal message, and at the end of a
\* run the file of every stream that had a RECORD holds the rows it held at
\* the start of the run, one more header row if and only if it was absent or
\* empty at the start, and one more data row per RECORD of the stream.
C5_RowCount ==
    /\ pc = "aborted" => Fatal(cur)
    /\ pc = "exited" =>
        \A s \in Streams :
            nrec[s] > 0 =>
                LET f  == files[<<s, start_day>>]
                    f0 == start_files[<<s, start_day>>]
                IN  /\ f.exists
                    /\ IsPrefix(f0.rows, f.rows)
                    /\ RowsOfKind(f, "header") = RowsOfKind(f0, "header")
                           + (IF file_is_empty(f0) THEN 1 ELSE 0)
                    /\ RowsOfKind(f, "data") = RowsOfKind(f0, "data") + nrec[s]

C5_Witness ==
    /\ pc = "exited"
    /\ \E s \in Streams :
          /\ nrec[s] >= 2
          /\ Len(files[<<s, start_day>>].rows) = 3

\* the step writes the first RECORD of stream s in this run
FirstRecord(s) == nrec[s] = 0 /\ nrec'[s] = 1

\* C6 as stated: the first RECORD of a stream whose file was non-empty when
\* the run started is written with the columns read from the file's first
\* line.
C6_ContinuationAsStated ==
    [][\A s \in Streams :
          (FirstRecord(s) /\ ~file_is_empty(start_files[<<s, start_day>>]))
              => Last(files'[<<s, start_day>>].rows).cols
                     = first_line(start_files[<<s, start_day>>])
      ]_vars

\* C6 (amended): the first RECORD of a stream whose file was non-empty when
\* the run started and has a first line with at least one column is written
\* with the columns read from that first line, not with its own keys, and no
\* header row is written.
C6_Continuation ==
    [][\A s \in Streams :
          (/\ FirstRecord(s)
           /\ ~file_is_empty(start_files[<<s, start_day>>])
           /\ first_line(start_files[<<s, start_day>>]) # <<>>)
              => LET f0 == start_files[<<s, start_day>>]
                     f1 == files'[<<s, start_day>>]
                 IN  /\ headers'[s] = first_line(f0)
                     /\ f1.rows = Append(f0.rows,
                                         data_row(first_line(f0),
                                                  flatten(cur'.record, "")))
      ]_vars

C6_Witness ==
    /\ run = 2
    /\ pc = "running"
    /\ cur.ok /\ cur.type = "RECORD"
    /\ nrec[cur.stream] = 1
    /\ LET f0 == start_files[<<cur.stream, start_day>>]
       IN  /\ ~file_is_empty(f0)
           /\ first_line(f0) # <<>>
           /\ first_line(f0) # keys(flatten(cur.record, ""))
           /\ Last(files[<<cur.stream, start_day>>].rows).cols = first_line(f0)

\* C7: a fatal message stops the run: the abort step writes no file and
\* changes nothing in memory, nothing of the run changes afterwards, every
\* step consumes at most the next message, and nothing is returned or
\* emitted.
C7_FatalAbort ==
    [][/\ (Consumed /\ Fatal(cur'))
             => (pc' = "aborted" /\ files' = files /\ UNCHANGED mem)
       /\ (pc = "aborted" /\ run' = run)
             => (pc' = "aborted" /\ UNCHANGED <<mem, files, returned, stdout, cur, total>>)
       /\ pc' = "aborted" => (stdout' = <<>> /\ returned' = PyNone)
       /\ total' # total => (Consumed /\ pc = "running")
      ]_vars

C7_Witness ==
    /\ pc = "aborted"
    /\ state # PyNone
    /\ \E s \in Streams : nrec[s] > 0 /\ Len(files[<<s, start_day>>].rows) >= 2
    /\ stdout = <<>>

\* C8: nothing is on stdout while messages are processed; after the input is
\* exhausted stdout holds exactly the JSON text of the last STATE value when
\* no RECORD followed it, whatever JSON value that is, and nothing when there
\* was no STATE or a RECORD followed it.
C8_Emission ==
    /\ pc = "running" => stdout = <<>>
    /\ pc = "exited" =>
          stdout = IF last_rs = "STATE" THEN <<json_dumps(last_state)>> ELSE <<>>

\* C9: a decoded message of a type other than SCHEMA, RECORD, STATE leaves
\* checkpoint, schemas, validators, key properties, headers and files as
\* they were, and the run goes on.
C9_UnknownType ==
    [][(Consumed /\ cur'.ok /\ cur'.type \notin {"SCHEMA", "RECORD", "STATE"})
          => (pc' = "running" /\ files' = files /\ UNCHANGED mem)
      ]_vars

C9_Witness ==
    /\ pc = "running"
    /\ cur.ok /\ cur.type \notin {"SCHEMA", "RECORD", "STATE", ""}
    /\ state # PyNone
    /\ DOMAIN headers # {}

\* C10: every append of a run goes to the file of the RECORD's stream and
\* of the day the run started, also after the calendar day has changed.
C10_FileIdentity ==
    [][/\ date = start_day
       /\ \A fn \in FileNames :
             files'[fn] # files[fn] => fn = <<cur'.stream, start_day>>
       /\ \A s \in Streams :
             nrec'[s] = nrec[s] + 1
                 => Len(files'[<<s, start_day>>].rows) > Len(files[<<s, start_day>>].rows)
      ]_vars

C10_Witness ==
    /\ write_day > start_day
    /\ cur.ok /\ cur.type = "RECORD"
    /\ nrec[cur.stream] > 0
    /\ ~file_is_empty(files[<<cur.stream, start_day>>])
    /\ \A s \in Streams : ~files[<<s, write_day>>].exists

\* the step wrote a RECORD of stream s
Written(s) == nrec'[s] = nrec[s] + 1

\* C11: a RECORD writes a header row exactly when its file was absent or of
\* size zero just before, and the header row comes before the data row;
\* over all runs every non-empty file starts with its only header row.
C11_HeaderOnce ==
    [][/\ \A s \in Streams :
             Written(s) =>
                 LET f0 == files[<<s, start_day>>]
                     f1 == files'[<<s, start_day>>]
                     n  == Len(f0.rows)
                 IN  IF (~f0.exists) \/ n = 0
                     THEN /\ Len(f1.rows) = 2
                          /\ f1.rows[1].kind = "header"
                          /\ f1.rows[2].kind = "data"
                     ELSE /\ Len(f1.rows) = n + 1
                          /\ f1.rows[n + 1].kind = "data"
       /\ \A fn \in FileNames :
             Len(files'[fn].rows) > 0 =>
                 /\ files'[fn].rows[1].kind = "header"
                 /\ \A i \in 2..Len(files'[fn].rows) :
                       files'[fn].rows[i].kind = "data"
      ]_vars

C11_Witness ==
    /\ run = 2
    /\ \E s \in Streams :
          /\ nrec[s] > 0
          /\ ~file_is_empty(start_files[<<s, start_day>>])
          /\ RowsOfKind(files[<<s, start_day>>], "header") = 1
          /\ RowsOfKind(files[<<s, start_day>>], "data") >= 2

\* C12: the data row of a RECORD has one cell per column of the header in
\* force for the stream at that write, in header order: the flattened
\* record's value under that column, or the empty string when the record
\* has no such key; keys outside the header leave no trace and no error.
C12_RowProjection ==
    [][\A s \in Streams :
          Written(s) =>
              LET row  == Last(files'[<<s, start_day>>].rows)
                  hdr  == headers'[s]
                  flat == flatten(cur'.record, "")
              IN  /\ pc' = "running"
                  /\ row.kind = "data"
                  /\ Len(row.fields) = Len(hdr)
                  /\ \A i \in 1..Len(hdr) :
                        \/ \E j \in 1..Len(flat) :
                              /\ flat[j][1] = hdr[i]
                              /\ row.fields[i] =
                                    (IF flat[j][2] = PyNone THEN "" ELSE flat[j][2].s)
                        \/ /\ \A j \in 1..Len(flat) : flat[j][1] # hdr[i]
                           /\ row.fields[i] = ""
      ]_vars

C12_Witness ==
    /\ pc = "running"
    /\ cur.ok /\ cur.type = "RECORD"
    /\ nrec[cur.stream] > 0
    /\ LET row  == Last(files[<<cur.stream, start_day>>].rows)
           flat == flatten(cur.record, "")
       IN  /\ \E i \in 1..Len(row.cols) : ~has_key(flat, row.cols[i])
           /\ \E j \in 1..Len(flat) :
                 \A i \in 1..Len(row.cols) : row.cols[i] # flat[j][1]
           /\ \E i \in 1..Len(row.cols) : row.fields[i] # ""

\* t is bound to the same value in both dicts, or in neither
SameAt(t, d0, d1) ==
    /\ t \in DOMAIN d0 <=> t \in DOMAIN d1
    /\ t \in DOMAIN d0 => d1[t] = d0[t]

\* C13: a SCHEMA message of stream s sets the schema, validator and key
\* properties of s and leaves the checkpoint, every header, every file and
\* the schema, validator and key properties of every other stream alone.
C13_SchemaFrame ==
    [][(Consumed /\ cur'.ok /\ cur'.type = "SCHEMA")
          => /\ pc' = "running"
             /\ state' = state
             /\ headers' = headers
             /\ files' = files
             /\ schemas'[cur'.stream] = cur'.schema
             /\ validators'[cur'.stream] = cur'.schema
             /\ key_properties'[cur'.stream] = cur'.key_properties
             /\ \A t \in Streams \ {cur'.stream} :
                   /\ SameAt(t, schemas, schemas')
                   /\ SameAt(t, validators, validators')
                   /\ SameAt(t, key_properties, key_properties')
      ]_vars

C13_Witness ==
    /\ pc = "running"
    /\ cur.ok /\ cur.type = "SCHEMA"
    /\ state # PyNone
    /\ cur.stream \in DOMAIN headers
    /\ ~file_is_empty(files[<<cur.stream, start_day>>])

\* C14: one message is consumed per step, in arrival order; a file that
\* exists keeps existing and keeps its rows as a prefix of its later content,
\* and the row of a RECORD is the last row of its file after the step, so
\* the data rows of a stream stand in the order of its RECORD messages.
C14_AppendOnly ==
    [][/\ \A fn \in FileNames :
             /\ files[fn].exists => files'[fn].exists
             /\ IsPrefix(files[fn].rows, files'[fn].rows)
       /\ \A s \in Streams :
             Written(s) =>
                 /\ Consumed /\ cur'.type = "RECORD" /\ cur'.stream = s
                 /\ Last(files'[<<s, start_day>>].rows).fields
                       = data_row(headers'[s], flatten(cur'.record, "")).fields
                 /\ Len(files'[<<s, start_day>>].rows)
                       > Len(files[<<s, start_day>>].rows)
       /\ total' # total => total' = total + 1
      ]_vars

C14_Witness ==
    /\ pc = "running"
    /\ cur.ok /\ cur.type = "RECORD"
    /\ nrec[cur.stream] >= 2
    /\ LET rows == files[<<cur.stream, start_day>>].rows
       IN  /\ Len(rows) >= 3
           /\ rows[Len(rows)].fields # rows[Len(rows) - 1].fields
           /\ rows[Len(rows)].fields
                 = data_row(headers[cur.stream], flatten(cur.record, "")).fields

\* the step handles a RECORD of stream s whose file is non-empty and starts
\* with a blank line, as the first RECORD of s in the run
HeaderlessFirst(s) ==
    /\ FirstRecord(s)
    /\ ~file_is_empty(files[<<s, start_day>>])
    /\ first_line(files[<<s, start_day>>]) = <<>>

\* C16 as stated: in that case the header is the record's flattened key
\* order, the row is appended without a header row, and the file's first
\* line is not the header of the row.
C16_HeaderlessAsStated ==
    [][\A s \in Streams :
          HeaderlessFirst(s) =>
              LET f0 == files[<<s, start_day>>]
                  f1 == files'[<<s, start_day>>]
                  ks == keys(flatten(cur'.record, ""))
              IN  /\ headers'[s] = ks
                  /\ Len(f1.rows) = Len(f0.rows) + 1
                  /\ Last(f1.rows).kind = "data"
                  /\ Last(f1.rows).cols = ks
                  /\ first_line(f1) # Last(f1.rows).cols
      ]_vars

\* C16 (amended): in that case the header is the record's flattened key
\* order and the row is appended without a header row; when the record has
\* at least one key the file's first line is not the header of the row.
C16_Headerless ==
    [][\A s \in Streams :
          HeaderlessFirst(s) =>
              LET f0 == files[<<s, start_day>>]
                  f1 == files'[<<s, start_day>>]
                  ks == keys(flatten(cur'.record, ""))
              IN  /\ headers'[s] = ks
                  /\ Len(f1.rows) = Len(f0.rows) + 1
                  /\ Last(f1.rows).kind = "data"
                  /\ Last(f1.rows).cols = ks
                  /\ first_line(f1) = <<>>
                  /\ cur'.record # <<>> => first_line(f1) # Last(f1.rows).cols
      ]_vars

C16_Witness ==
    /\ run = 2
    /\ pc = "running"
    /\ cur.ok /\ cur.type = "RECORD" /\ cur.record # <<>>
    /\ nrec[cur.stream] = 1
    /\ LET f0 == start_files[<<cur.stream, start_day>>]
           f1 == files[<<cur.stream, start_day>>]
       IN  /\ ~file_is_empty(f0)
           /\ first_line(f0) = <<>>
           /\ Len(f1.rows) = Len(f0.rows) + 1
           /\ Last(f1.rows).cols # first_line(f1)

\* C18: a RECORD of stream s changes no file, header, schema or validator
\* of another stream, and the files of two streams are different files.
C18_StreamIsolation ==
    [][(Consumed /\ cur'.ok /\ cur'.type = "RECORD")
          => /\ \A t \in Streams \ {cur'.stream} :
                   /\ \A d \in Days : files'[<<t, d>>] = files[<<t, d>>]
                   /\ SameAt(t, headers, headers')
             /\ schemas' = schemas
             /\ validators' = validators
             /\ \A t, u \in Streams :
                   t # u => filename(t, date, today) # filename(u, date, today)
      ]_vars

C18_Witness ==
    /\ pc = "running"
    /\ cur.ok /\ cur.type = "RECORD"
    /\ \A s \in Streams : nrec[s] > 0 /\ s \in DOMAIN headers
    /\ \E s \in Streams : headers[s] # headers[cur.stream]

\* the leaves of d that are not mappings, in iteration order, each with the
\* chain of keys that leads to it
RECURSIVE Leaves(_, _)
Leaves(d, chain) ==
    IF d = <<>> THEN <<>>
    ELSE LET k == d[1][1]
             v == d[1][2]
         IN  (IF v.t = "dict" THEN Leaves(v.m, Append(chain, k))
                              ELSE << <<Append(chain, k), v>> >>)
             \o Leaves(Tail(d), chain)

\* the keys of a chain joined with "__"
RECURSIVE Joined(_)
Joined(chain) ==
    IF Len(chain) = 1 THEN chain[1]
    ELSE Joined(Front(chain)) \o "__" \o chain[Len(chain)]

\* a list is replaced by its string form, every other value is kept
Converted(v) == IF v.t = "list" THEN [t |-> "str", s |-> v.s, m |-> <<>>] ELSE v

IsFlat(d) == \A i \in 1..Len(d) : d[i][2].t # "dict"

\* what C17 says of the result out of flatten(d)
FlattenAsClaimed(d, out) ==
    LET L == Leaves(d, <<>>)
    IN  /\ \A i \in 1..Len(out) : out[i][2].t # "dict"
        \* the keys are the joined nesting paths
        /\ {out[i][1] : i \in 1..Len(out)} = {Joined(L[j][1]) : j \in 1..Len(L)}
        /\ \A i, j \in 1..Len(out) : i # j => out[i][1] # out[j][1]
        \* in iteration order
        /\ \A i, j \in 1..Len(out) :
              i < j => \E a \in 1..Len(L) :
                          /\ Joined(L[a][1]) = out[i][1]
                          /\ \A b \in 1..Len(L) :
                                Joined(L[b][1]) = out[j][1] => a < b
        \* with the value of a leaf at that path, lists as strings
        /\ \A i \in 1..Len(out) :
              \E a \in 1..Len(L) :
                  Joined(L[a][1]) = out[i][1] /\ out[i][2] = Converted(L[a][2])
        \* a mapping without nested mappings keeps its keys and values
        /\ IsFlat(d) =>
              /\ Len(out) = Len(d)
              /\ \A i \in 1..Len(d) :
                    out[i][1] = d[i][1] /\ out[i][2] = Converted(d[i][2])
        \* the example of the specification
        /\ d = << <<"a", PyDict(<< <<"b", PyInt("1")>>, <<"c", PyInt("2")>> >>)>> >>
              => out = << <<"a__b", PyInt("1")>>, <<"a__c", PyInt("2")>> >>

\* C17: flatten(d) is the single-level mapping of the nesting paths of d
\* joined with "__", in iteration order, lists replaced by their string
\* form and other values unchanged; a mapping without nested mappings keeps
\* its keys; flatten({"a": {"b": 1, "c": 2}}) = {"a__b": 1, "a__c": 2}.
C17_FlattenResult == fl.done => FlattenAsClaimed(fl.d, fl.out)

\* no chain of keys of d holds the empty string before its last place
NoEmptyParent(d) ==
    LET L == Leaves(d, <<>>)
    IN  \A a \in 1..Len(L) : \A n \in 1..(Len(L[a][1]) - 1) : L[a][1][n] # ""

\* what holds of flatten next to C17: the statement of C17 for the mappings
\* in which no nested mapping sits under the empty key
FlattenResultNonEmptyKeys ==
    (fl.done /\ NoEmptyParent(fl.d)) => FlattenAsClaimed(fl.d, fl.out)

\* C19: flatten(d) has exactly one key for every leaf of d that is not a
\* mapping: two different nesting paths never give the same joined key.
C19_FlattenLosesNothing ==
    fl.done => Len(fl.out) = Len(Leaves(fl.d, <<>>))

\* the file of the RECORD process p is handling
FileOf(p) == <<procs[p].o.stream, date>>

\* C15: with two runs at the same time on the same folder, day and stream,
\* a process that found the file empty appends after the other process has
\* written to it, and then the file holds more than one header row.
C15_ConcurrentUnsafe ==
    [][\A p \in Procs :
          (/\ procs[p].pc = "append" /\ procs'[p].pc = "loop"
           /\ procs[p].file_is_empty
           /\ ~file_is_empty(files[FileOf(p)]))
              => /\ RowsOfKind(files'[FileOf(p)], "header") >= 2
                 /\ Last(files'[FileOf(p)].rows).kind = "data"
                 /\ files'[FileOf(p)].rows[Len(files'[FileOf(p)].rows) - 1].kind
                       = "header"
      ]_vars

C15_Witness ==
    /\ \A p \in Procs : procs[p].pc = "loop" /\ DOMAIN procs[p].headers # {}
    /\ \E fn \in FileNames :
          /\ RowsOfKind(files[fn], "header") >= 2
          /\ \E i, j \in 1..Len(files[fn].rows) :
                /\ files[fn].rows[i].kind = "data"
                /\ files[fn].rows[j].kind = "data"
                /\ files[fn].rows[i].cols # files[fn].rows[j].cols

====
